---- MODULE Spec2Model ----
(***************************************************************************)
(* zkSolc compiler configuration (crates/config/src/zksolc_config.rs):     *)
(* Settings and Optimizer with their serde attributes, ZkSolcConfigBuilder *)
(* and the order-preserving ZkStandardJsonCompilerInput.                   *)
(*                                                                         *)
(* A JSON document is modelled as the text serde_json writes and reads: an *)
(* object is the SEQUENCE of its entries in document order, duplicates     *)
(* included.  Rust values are records; Option and Result are tagged        *)
(* records.                                                                *)
(***************************************************************************)
EXTENDS Naturals, Sequences, FiniteSets, TLC

VARIABLES
    builder,   \* Option<ZkSolcConfigBuilder>: None once build() consumed it
    calls,     \* history of the setter calls made on the builder
    config,    \* Option<Result<ZkSolcConfig, String>>: what build() returned
    st,        \* Option<Settings>: the Settings value in hand
    args,      \* Option<[sources, settings]>: the arguments of new()
    input,     \* Option<ZkStandardJsonCompilerInput>: what new() returned
    doc,       \* Option<Result<JSON>>: what serialization returned
    wire,      \* Option<JSON>: the document about to be read
    dropped,   \* the key paths the document on the wire is missing
    parsed,    \* Option<Result<..>>: what deserialization returned
    op         \* the operation that produced the current state

vars == <<builder, calls, config, st, args, input, doc, wire, dropped, parsed, op>>

----------------------------------------------------------------------------
\* Bounds of the model.

\* Longest `sources` sequence handed to new().
MaxSources == 3
\* Most setter calls made on one builder.
MaxCalls == 3
\* Most keys a document may be missing.
MaxDropped == 1

----------------------------------------------------------------------------
\* Option, Result

None == [some |-> FALSE]
Some(x) == [some |-> TRUE, val |-> x]
Ok(x) == [ok |-> TRUE, val |-> x]
Err(e) == [ok |-> FALSE, err |-> e]

\* Option::unwrap_or_default
unwrap_or_default(o, d) == IF o.some THEN o.val ELSE d

----------------------------------------------------------------------------
\* JSON text: values and objects in document order.

JNull == [t |-> "null"]
JBool(b) == [t |-> "bool", b |-> b]
JStr(s) == [t |-> "string", s |-> s]
JArr(xs) == [t |-> "array", items |-> xs]
JObj(es) == [t |-> "object", entries |-> es]
Entry(k, v) == [key |-> k, value |-> v]
\* The JSON an embedded foundry_compilers type (Remapping, SettingsMetadata,
\* OutputSelection, Libraries, OptimizerDetails) writes for the value x by
\* its own Serialize impl; read back by that type's Deserialize.
JExt(kind, x) == [t |-> "ext", kind |-> kind, x |-> x]

KeysOf(es) == [i \in 1..Len(es) |-> es[i].key]
Count(es, k) == Cardinality({i \in 1..Len(es) : es[i].key = k})
\* The value under the first entry with key k (null when there is none, which
\* no reader is handed: Field asks Count first).
Get(es, k) ==
    IF Count(es, k) = 0 THEN JNull
    ELSE es[CHOOSE i \in 1..Len(es) : es[i].key = k /\ \A j \in 1..(i - 1) : es[j].key # k].value
HasKey(j, k) == j.t = "object" /\ Count(j.entries, k) > 0
RemoveKey(es, k) == SelectSeq(es, LAMBDA e : e.key # k)

\* Readers of the primitive shapes.
DeBool(j) == IF j.t = "bool" THEN Ok(j.b) ELSE Err("invalid type")
DeString(j) == IF j.t = "string" THEN Ok(j.s) ELSE Err("invalid type")
DeOptBool(j) == IF j.t = "null" THEN Ok(None)
                ELSE IF j.t = "bool" THEN Ok(Some(j.b)) ELSE Err("invalid type")
DeOptString(j) == IF j.t = "null" THEN Ok(None)
                  ELSE IF j.t = "string" THEN Ok(Some(j.s)) ELSE Err("invalid type")
DeExt(kind, j) == IF j.t = "ext" /\ j.kind = kind THEN Ok(j.x) ELSE Err("invalid type")
DeOptExt(kind, j) == IF j.t = "null" THEN Ok(None)
                     ELSE IF j.t = "ext" /\ j.kind = kind THEN Ok(Some(j.x))
                     ELSE Err("invalid type")
DeVecExt(kind, j) ==
    IF j.t = "array" /\ \A i \in 1..Len(j.items) : DeExt(kind, j.items[i]).ok
    THEN Ok([i \in 1..Len(j.items) |-> j.items[i].x])
    ELSE Err("invalid type")
DeVecString(j) ==
    IF j.t = "array" /\ \A i \in 1..Len(j.items) : j.items[i].t = "string"
    THEN Ok([i \in 1..Len(j.items) |-> j.items[i].s])
    ELSE Err("invalid type")

\* One field of a derived Deserialize reading the object entries es: a key
\* met twice is an error, a key met once yields `got` (what the field's
\* reader makes of the value under the key), and a key never met yields
\* `missing` (the serde default of the field, or the missing-field error of
\* a required one).
Field(es, k, got, missing) ==
    IF Count(es, k) > 1 THEN Err(<<"duplicate field", k>>)
    ELSE IF Count(es, k) = 0 THEN missing
    ELSE got
Required(k) == Err(<<"missing field", k>>)

----------------------------------------------------------------------------
\* Optimizer

Optimizer_default ==
    [enabled |-> None,
     mode |-> None,
     details |-> None,
     fallback_to_optimizing_for_size |-> None,
     disable_system_request_memoization |-> FALSE]

\* derive(Serialize) for Optimizer: every field written, None as null.
SerOptBool(o) == IF o.some THEN JBool(o.val) ELSE JNull
SerOptString(o) == IF o.some THEN JStr(o.val) ELSE JNull
SerOptExt(kind, o) == IF o.some THEN JExt(kind, o.val) ELSE JNull
Optimizer_serialize(o) ==
    JObj(<<Entry("enabled", SerOptBool(o.enabled)),
           Entry("mode", SerOptString(o.mode)),
           Entry("details", SerOptExt("OptimizerDetails", o.details)),
           Entry("fallbackToOptimizingForSize", SerOptBool(o.fallback_to_optimizing_for_size)),
           Entry("disableSystemRequestMemoization", JBool(o.disable_system_request_memoization))>>)

\* derive(Deserialize) for Optimizer: an absent Option field reads as None,
\* the bool field is required.
DeOptDetails(j) == DeOptExt("OptimizerDetails", j)
Optimizer_deserialize(j) ==
    IF j.t # "object" THEN Err("invalid type") ELSE
    LET es == j.entries
        f == <<Field(es, "enabled", DeOptBool(Get(es, "enabled")), Ok(None)),
               Field(es, "mode", DeOptString(Get(es, "mode")), Ok(None)),
               Field(es, "details", DeOptDetails(Get(es, "details")), Ok(None)),
               Field(es, "fallbackToOptimizingForSize", DeOptBool(Get(es, "fallbackToOptimizingForSize")), Ok(None)),
               Field(es, "disableSystemRequestMemoization", DeBool(Get(es, "disableSystemRequestMemoization")),
                     Required("disableSystemRequestMemoization"))>>
        bad == {i \in 1..Len(f) : ~f[i].ok}
    IN  IF bad # {} THEN f[CHOOSE i \in bad : \A j2 \in bad : i <= j2]
        ELSE Ok([enabled |-> f[1].val,
                 mode |-> f[2].val,
                 details |-> f[3].val,
                 fallback_to_optimizing_for_size |-> f[4].val,
                 disable_system_request_memoization |-> f[5].val])

----------------------------------------------------------------------------
\* OutputSelection and Libraries (foundry_compilers), as the maps they wrap:
\* a sequence of <<key, value>> pairs in key order.

\* OutputSelection::default_output_selection(): every file, every contract,
\* the standard outputs.
default_output_selection ==
    << <<"*", << <<"*", <<"abi", "evm.bytecode", "evm.deployedBytecode",
                          "evm.methodIdentifiers">> >> >> >> >>
\* <OutputSelection as Default>::default(): the empty map, which is what a
\* field attribute serde(default) calls for a field of this type.
OutputSelection_default == << >>
\* <Libraries as Default>::default()
Libraries_default == << >>

----------------------------------------------------------------------------
\* Settings

\* Settings::default() as derive(Default) would write it: every field its
\* type's default.
Settings_default_Derived ==
    [remappings |-> << >>,
     optimizer |-> Optimizer_default,
     metadata |-> None,
     output_selection |-> OutputSelection_default,
     libraries |-> Libraries_default,
     is_system |-> FALSE,
     force_evmla |-> FALSE,
     missing_libraries_path |-> None,
     are_libraries_missing |-> FALSE,
     contracts_to_compile |-> << >>]

Settings_default ==
    [remappings |-> << >>,
     optimizer |-> Optimizer_default,
     metadata |-> None,
     output_selection |-> default_output_selection,
     libraries |-> Libraries_default,
     is_system |-> FALSE,
     force_evmla |-> FALSE,
     missing_libraries_path |-> None,
     are_libraries_missing |-> FALSE,
     contracts_to_compile |-> << >>]

SerRemapping(r) == JExt("Remapping", r)

\* Settings_serialize without the skip_serializing_if attributes: every field
\* written, None as null.
Settings_serialize_NoSkip(s) ==
    JObj(<<Entry("remappings", JArr([i \in 1..Len(s.remappings) |-> SerRemapping(s.remappings[i])])),
           Entry("optimizer", Optimizer_serialize(s.optimizer)),
           Entry("metadata", SerOptExt("SettingsMetadata", s.metadata)),
           Entry("outputSelection", JExt("OutputSelection", s.output_selection)),
           Entry("libraries", JExt("Libraries", s.libraries)),
           Entry("isSystem", JBool(s.is_system)),
           Entry("forceEvmla", JBool(s.force_evmla)),
           Entry("missingLibrariesPath", SerOptString(s.missing_libraries_path)),
           Entry("areLibrariesMissing", JBool(s.are_libraries_missing)),
           Entry("contractsToCompile", JArr([i \in 1..Len(s.contracts_to_compile) |-> JStr(s.contracts_to_compile[i])]))>>)

\* derive(Serialize) for Settings, rename_all = "camelCase": the fields in
\* declaration order, the four skip_serializing_if fields left out when
\* empty or None.
Settings_serialize(s) ==
    JObj(
        (IF s.remappings = << >> THEN << >>
         ELSE <<Entry("remappings", JArr([i \in 1..Len(s.remappings) |-> SerRemapping(s.remappings[i])]))>>)
     \o <<Entry("optimizer", Optimizer_serialize(s.optimizer))>>
     \o (IF ~s.metadata.some THEN << >>
         ELSE <<Entry("metadata", JExt("SettingsMetadata", s.metadata.val))>>)
     \o <<Entry("outputSelection", JExt("OutputSelection", s.output_selection)),
          Entry("libraries", JExt("Libraries", s.libraries)),
          Entry("isSystem", JBool(s.is_system)),
          Entry("forceEvmla", JBool(s.force_evmla))>>
     \o (IF ~s.missing_libraries_path.some THEN << >>
         ELSE <<Entry("missingLibrariesPath", JStr(s.missing_libraries_path.val))>>)
     \o <<Entry("areLibrariesMissing", JBool(s.are_libraries_missing))>>
     \o (IF s.contracts_to_compile = << >> THEN << >>
         ELSE <<Entry("contractsToCompile", JArr([i \in 1..Len(s.contracts_to_compile) |-> JStr(s.contracts_to_compile[i])]))>>))

\* derive(Deserialize) for Settings: optimizer, isSystem and forceEvmla are
\* required; a field marked serde(default) takes its TYPE's Default::default()
\* when its key is absent; unknown keys are ignored.
DeRemappings(j) == DeVecExt("Remapping", j)
DeMetadata(j) == DeOptExt("SettingsMetadata", j)
DeOutputSelection(j) == DeExt("OutputSelection", j)
DeLibraries(j) == DeExt("Libraries", j)
\* Settings_deserialize with serde(default) on isSystem and forceEvmla too.
Settings_deserialize_FlagsDefault(j) ==
    IF j.t # "object" THEN Err("invalid type") ELSE
    LET es == j.entries
        f == <<Field(es, "remappings", DeRemappings(Get(es, "remappings")), Ok(<< >>)),
               Field(es, "optimizer", Optimizer_deserialize(Get(es, "optimizer")), Required("optimizer")),
               Field(es, "metadata", DeMetadata(Get(es, "metadata")), Ok(None)),
               Field(es, "outputSelection", DeOutputSelection(Get(es, "outputSelection")), Ok(OutputSelection_default)),
               Field(es, "libraries", DeLibraries(Get(es, "libraries")), Ok(Libraries_default)),
               Field(es, "isSystem", DeBool(Get(es, "isSystem")), Ok(FALSE)),
               Field(es, "forceEvmla", DeBool(Get(es, "forceEvmla")), Ok(FALSE)),
               Field(es, "missingLibrariesPath", DeOptString(Get(es, "missingLibrariesPath")), Ok(None)),
               Field(es, "areLibrariesMissing", DeBool(Get(es, "areLibrariesMissing")), Ok(FALSE)),
               Field(es, "contractsToCompile", DeVecString(Get(es, "contractsToCompile")), Ok(<< >>))>>
        bad == {i \in 1..Len(f) : ~f[i].ok}
    IN  IF bad # {} THEN f[CHOOSE i \in bad : \A j2 \in bad : i <= j2]
        ELSE Ok([remappings |-> f[1].val,
                 optimizer |-> f[2].val,
                 metadata |-> f[3].val,
                 output_selection |-> f[4].val,
                 libraries |-> f[5].val,
                 is_system |-> f[6].val,
                 force_evmla |-> f[7].val,
                 missing_libraries_path |-> f[8].val,
                 are_libraries_missing |-> f[9].val,
                 contracts_to_compile |-> f[10].val])

Settings_deserialize(j) ==
    IF j.t # "object" THEN Err("invalid type") ELSE
    LET es == j.entries
        f == <<Field(es, "remappings", DeRemappings(Get(es, "remappings")), Ok(<< >>)),
               Field(es, "optimizer", Optimizer_deserialize(Get(es, "optimizer")), Required("optimizer")),
               Field(es, "metadata", DeMetadata(Get(es, "metadata")), Ok(None)),
               Field(es, "outputSelection", DeOutputSelection(Get(es, "outputSelection")), Ok(OutputSelection_default)),
               Field(es, "libraries", DeLibraries(Get(es, "libraries")), Ok(Libraries_default)),
               Field(es, "isSystem", DeBool(Get(es, "isSystem")), Required("isSystem")),
               Field(es, "forceEvmla", DeBool(Get(es, "forceEvmla")), Required("forceEvmla")),
               Field(es, "missingLibrariesPath", DeOptString(Get(es, "missingLibrariesPath")), Ok(None)),
               Field(es, "areLibrariesMissing", DeBool(Get(es, "areLibrariesMissing")), Ok(FALSE)),
               Field(es, "contractsToCompile", DeVecString(Get(es, "contractsToCompile")), Ok(<< >>))>>
        bad == {i \in 1..Len(f) : ~f[i].ok}
    IN  IF bad # {} THEN f[CHOOSE i \in bad : \A j2 \in bad : i <= j2]
        ELSE Ok([remappings |-> f[1].val,
                 optimizer |-> f[2].val,
                 metadata |-> f[3].val,
                 output_selection |-> f[4].val,
                 libraries |-> f[5].val,
                 is_system |-> f[6].val,
                 force_evmla |-> f[7].val,
                 missing_libraries_path |-> f[8].val,
                 are_libraries_missing |-> f[9].val,
                 contracts_to_compile |-> f[10].val])

----------------------------------------------------------------------------
\* PathBuf and Source

\* A path is an OS string; utf8 tells whether it is valid UTF-8.
PathBuf_from(s) == [utf8 |-> TRUE, s |-> s]
PathBuf_default == PathBuf_from("")
\* Path::to_str
to_str(p) == IF p.utf8 THEN Some(p.s) ELSE None
\* <Path as Serialize>: the string, or an error for a path that is not UTF-8.
Path_serialize(p) ==
    IF to_str(p).some THEN Ok(JStr(to_str(p).val))
    ELSE Err("path contains invalid UTF-8 characters")
\* A map key read back as a PathBuf.
Path_deserialize(k) == PathBuf_from(k)

\* <Source as Serialize>, <Source as Deserialize>: {"content": ...}
Source_serialize(src) == JObj(<<Entry("content", JStr(src.content))>>)
Source_deserialize(j) ==
    IF j.t # "object" THEN Err("invalid type") ELSE
    LET c == Field(j.entries, "content", DeString(Get(j.entries, "content")), Required("content"))
    IN  IF c.ok THEN Ok([content |-> c.val]) ELSE c

----------------------------------------------------------------------------
\* ZkSolcConfigBuilder

\* derive(Default) for ZkSolcConfigBuilder, which new() returns.
ZkSolcConfigBuilder_new ==
    [compiler_path |-> PathBuf_default,
     settings |-> None,
     contracts_to_compile |-> None,
     avoid_contracts |-> None]

compiler_path(self, path) == [self EXCEPT !.compiler_path = path]

\* settings() that keeps a value already set.
settings_KeepFirst(self, s) ==
    IF self.settings.some THEN self ELSE [self EXCEPT !.settings = Some(s)]

settings(self, s) == [self EXCEPT !.settings = Some(s)]

\* build() that insists on settings having been set.
build_RequireSettings(self) ==
    IF ~self.settings.some THEN Err("settings not set")
    ELSE Ok([compiler_path |-> self.compiler_path,
             settings |-> self.settings.val,
             contracts_to_compile |-> self.contracts_to_compile,
             avoid_contracts |-> self.avoid_contracts])

build(self) ==
    Ok([compiler_path |-> self.compiler_path,
        settings |-> unwrap_or_default(self.settings, Settings_default),
        contracts_to_compile |-> self.contracts_to_compile,
        avoid_contracts |-> self.avoid_contracts])

----------------------------------------------------------------------------
\* ZkStandardJsonCompilerInput

SOLIDITY == "Solidity"

\* new() that tags the input with another language of the toolchain.
ZkStandardJsonCompilerInput_new_Yul(sources, s) ==
    [language |-> "Yul", sources |-> sources, settings |-> s]

ZkStandardJsonCompilerInput_new(sources, s) ==
    [language |-> SOLIDITY, sources |-> sources, settings |-> s]

\* The paths of the model in alphabetical order, and the entries es as a map
\* keyed by path holds them: one entry per key, the last value written, in
\* key order.
AlphaKeys == <<"a.sol", "m.sol", "z.sol">>
LastOf(es, k) ==
    es[CHOOSE i \in 1..Len(es) : es[i].key = k /\ \A j \in (i + 1)..Len(es) : es[j].key # k]
AsMap(es) ==
    LET ks == SelectSeq(AlphaKeys, LAMBDA k : Count(es, k) > 0)
    IN  [i \in 1..Len(ks) |-> LastOf(es, ks[i])]
\* The entries es with a repeated key written once, at its first place, with
\* its last value.
Deduped(es) ==
    LET firsts == SelectSeq([i \in 1..Len(es) |-> <<i, es[i]>>],
                            LAMBDA x : \A j \in 1..(x[1] - 1) : es[j].key # x[2].key)
    IN  [i \in 1..Len(firsts) |-> LastOf(es, firsts[i][2].key)]

\* `sources` serialized as a map keyed by path (a BTreeMap) would be.
tuple_vec_map_serialize_ViaMap(sources) ==
    IF \E i \in 1..Len(sources) : ~Path_serialize(sources[i][1]).ok
    THEN Err("path contains invalid UTF-8 characters")
    ELSE Ok(JObj(AsMap([i \in 1..Len(sources) |->
                          Entry(Path_serialize(sources[i][1]).val.s,
                                Source_serialize(sources[i][2]))])))

\* `sources` serialized with a repeated path written once.
tuple_vec_map_serialize_Dedup(sources) ==
    IF \E i \in 1..Len(sources) : ~Path_serialize(sources[i][1]).ok
    THEN Err("path contains invalid UTF-8 characters")
    ELSE Ok(JObj(Deduped([i \in 1..Len(sources) |->
                            Entry(Path_serialize(sources[i][1]).val.s,
                                  Source_serialize(sources[i][2]))])))

\* serde_helpers::tuple_vec_map::serialize: collect_map over the pairs of
\* the Vec, one entry written per pair, in Vec order.
tuple_vec_map_serialize(sources) ==
    IF \E i \in 1..Len(sources) : ~Path_serialize(sources[i][1]).ok
    THEN Err("path contains invalid UTF-8 characters")
    ELSE Ok(JObj([i \in 1..Len(sources) |->
                    Entry(Path_serialize(sources[i][1]).val.s,
                          Source_serialize(sources[i][2]))]))

\* `sources` read into a map keyed by path and listed from it.
tuple_vec_map_deserialize_ViaMap(j) ==
    IF j.t # "object" THEN Err("invalid type")
    ELSE IF \E i \in 1..Len(j.entries) : ~Source_deserialize(j.entries[i].value).ok
    THEN Err("invalid type")
    ELSE Ok([i \in 1..Len(AsMap(j.entries)) |->
               <<Path_deserialize(AsMap(j.entries)[i].key),
                 Source_deserialize(AsMap(j.entries)[i].value).val>>])

\* serde_helpers::tuple_vec_map::deserialize: every entry of the object,
\* pushed onto a Vec in the order read.
tuple_vec_map_deserialize(j) ==
    IF j.t # "object" THEN Err("invalid type")
    ELSE IF \E i \in 1..Len(j.entries) : ~Source_deserialize(j.entries[i].value).ok
    THEN Err("invalid type")
    ELSE Ok([i \in 1..Len(j.entries) |->
               <<Path_deserialize(j.entries[i].key),
                 Source_deserialize(j.entries[i].value).val>>])

\* derive(Serialize) for ZkStandardJsonCompilerInput
Input_serialize(v) ==
    LET srcs == tuple_vec_map_serialize(v.sources)
    IN  IF ~srcs.ok THEN srcs
        ELSE Ok(JObj(<<Entry("language", JStr(v.language)),
                       Entry("sources", srcs.val),
                       Entry("settings", Settings_serialize(v.settings))>>))

\* derive(Deserialize) for ZkStandardJsonCompilerInput: the three keys are
\* required.
Input_deserialize(j) ==
    IF j.t # "object" THEN Err("invalid type") ELSE
    LET es == j.entries
        f == <<Field(es, "language", DeString(Get(es, "language")), Required("language")),
               Field(es, "sources", tuple_vec_map_deserialize(Get(es, "sources")), Required("sources")),
               Field(es, "settings", Settings_deserialize(Get(es, "settings")), Required("settings"))>>
        bad == {i \in 1..Len(f) : ~f[i].ok}
    IN  IF bad # {} THEN f[CHOOSE i \in bad : \A j2 \in bad : i <= j2]
        ELSE Ok([language |-> f[1].val, sources |-> f[2].val, settings |-> f[3].val])

----------------------------------------------------------------------------
\* The values the callers pass in.

SeqsUpTo(S, n) == UNION {[1..k -> S] : k \in 0..n}

OptimizerSet ==
    {Optimizer_default,
     [enabled |-> Some(TRUE),
      mode |-> Some("z"),
      details |-> Some("details"),
      fallback_to_optimizing_for_size |-> Some(TRUE),
      disable_system_request_memoization |-> TRUE]}

CustomSelection == << <<"A.sol", << <<"A", <<"abi">> >> >> >> >>
SomeLibraries == << <<"lib.sol", << <<"Lib", "0x01">> >> >> >>

\* Every Settings value a caller can write down over these field values.
SettingsSet ==
    [remappings : {<< >>, <<"ds-test/=lib/ds-test/src/">>},
     optimizer : OptimizerSet,
     metadata : {None, Some("metadata")},
     output_selection : {default_output_selection, CustomSelection},
     libraries : {Libraries_default, SomeLibraries},
     is_system : BOOLEAN,
     force_evmla : BOOLEAN,
     missing_libraries_path : {None, Some("cache/missing.json")},
     are_libraries_missing : BOOLEAN,
     contracts_to_compile : {<< >>, <<"Greeter">>}]

\* A Settings value with no field at its default.
CustomSettings ==
    [remappings |-> <<"ds-test/=lib/ds-test/src/">>,
     optimizer |-> [enabled |-> Some(TRUE),
                    mode |-> Some("z"),
                    details |-> Some("details"),
                    fallback_to_optimizing_for_size |-> Some(TRUE),
                    disable_system_request_memoization |-> TRUE],
     metadata |-> Some("metadata"),
     output_selection |-> CustomSelection,
     libraries |-> SomeLibraries,
     is_system |-> TRUE,
     force_evmla |-> TRUE,
     missing_libraries_path |-> Some("cache/missing.json"),
     are_libraries_missing |-> TRUE,
     contracts_to_compile |-> <<"Greeter">>]

\* The Settings values handed to the builder and to new().
SomeSettings ==
    {Settings_default, CustomSettings, [Settings_default EXCEPT !.is_system = TRUE]}

BuilderPaths == {PathBuf_from("zksolc"), PathBuf_from("https://example.org/zksolc")}

\* The (path, source) pairs: three paths out of alphabetical order, one path
\* listed with two contents, one path that is not UTF-8.
NonUtf8Path == [utf8 |-> FALSE, s |-> "\\xff.sol"]
Pairs ==
    {<<PathBuf_from("z.sol"), [content |-> "contract Z {}"]>>,
     <<PathBuf_from("a.sol"), [content |-> "contract A {}"]>>,
     <<PathBuf_from("m.sol"), [content |-> "contract M {}"]>>,
     <<PathBuf_from("a.sol"), [content |-> "contract A2 {}"]>>,
     <<NonUtf8Path, [content |-> "contract X {}"]>>}

SettingsKeys ==
    {"remappings", "optimizer", "metadata", "outputSelection", "libraries",
     "isSystem", "forceEvmla", "missingLibrariesPath", "areLibrariesMissing",
     "contractsToCompile"}
InputKeys == {"language", "sources", "settings"}
\* Key paths into a compiler-input document.
InputKeyPaths == {<<k>> : k \in InputKeys} \cup {<<"settings", k>> : k \in SettingsKeys}

\* The document j without the key at path p.
HasPath(j, p) ==
    IF Len(p) = 1 THEN HasKey(j, p[1])
    ELSE HasKey(j, p[1]) /\ HasKey(Get(j.entries, p[1]), p[2])
DropPath(j, p) ==
    IF Len(p) = 1 THEN JObj(RemoveKey(j.entries, p[1]))
    ELSE JObj([i \in 1..Len(j.entries) |->
                 IF j.entries[i].key = p[1]
                 THEN Entry(p[1], JObj(RemoveKey(j.entries[i].value.entries, p[2])))
                 ELSE j.entries[i]])

----------------------------------------------------------------------------
\* Builder: new(), the setters, build().

InitBuilder ==
    /\ builder = Some(ZkSolcConfigBuilder_new)
    /\ calls = << >>
    /\ config = None
    /\ st = None /\ args = None /\ input = None
    /\ doc = None /\ wire = None /\ parsed = None /\ dropped = {}
    /\ op = "new"

Idle == UNCHANGED <<st, args, input, doc, wire, parsed, dropped>>

CallCompilerPath(path) ==
    /\ builder.some
    /\ Len(calls) < MaxCalls
    /\ builder' = Some(compiler_path(builder.val, path))
    /\ calls' = Append(calls, <<"compiler_path", path>>)
    /\ op' = "compiler_path"
    /\ UNCHANGED config
    /\ Idle

CallSettings(s) ==
    /\ builder.some
    /\ Len(calls) < MaxCalls
    /\ builder' = Some(settings(builder.val, s))
    /\ calls' = Append(calls, <<"settings", s>>)
    /\ op' = "settings"
    /\ UNCHANGED config
    /\ Idle

\* build(self) consumes the builder.
CallBuild ==
    /\ builder.some
    /\ config' = Some(build(builder.val))
    /\ builder' = None
    /\ op' = "build"
    /\ UNCHANGED calls
    /\ Idle

NextBuilder ==
    \/ \E path \in BuilderPaths : CallCompilerPath(path)
    \/ \E s \in SomeSettings : CallSettings(s)
    \/ CallBuild

SpecBuilder == InitBuilder /\ [][NextBuilder]_vars

----------------------------------------------------------------------------
\* Settings: default(), serialization, a document read back.

InitSettings ==
    /\ st \in {Some(s) : s \in SettingsSet}
    /\ op = "literal"
    /\ doc = None /\ wire = None /\ parsed = None /\ dropped = {}
    /\ builder = None /\ calls = << >> /\ config = None
    /\ args = None /\ input = None

NoBuilder == UNCHANGED <<builder, calls, config>>

CallDefault ==
    /\ st' = Some(Settings_default)
    /\ op' = "default"
    /\ doc' = None /\ wire' = None /\ parsed' = None /\ dropped' = {}
    /\ UNCHANGED <<args, input>>
    /\ NoBuilder

\* serde_json::to_string(&settings): the document goes on the wire.
SerializeSettings ==
    /\ st.some /\ doc = None
    /\ doc' = Some(Ok(Settings_serialize(st.val)))
    /\ wire' = Some(Settings_serialize(st.val))
    /\ op' = "serialize"
    /\ UNCHANGED <<st, args, input, parsed, dropped>>
    /\ NoBuilder

\* A document that arrives without the key k.
DropSettingsKey(k) ==
    /\ wire.some /\ parsed = None
    /\ Cardinality(dropped) < MaxDropped
    /\ HasKey(wire.val, k)
    /\ wire' = Some(DropPath(wire.val, <<k>>))
    /\ dropped' = dropped \cup {<<k>>}
    /\ op' = "drop"
    /\ UNCHANGED <<st, args, input, doc, parsed>>
    /\ NoBuilder

\* serde_json::from_str::<Settings>(wire)
DeserializeSettings ==
    /\ wire.some /\ parsed = None
    /\ parsed' = Some(Settings_deserialize(wire.val))
    /\ op' = "deserialize"
    /\ UNCHANGED <<st, args, input, doc, wire, dropped>>
    /\ NoBuilder

NextSettings ==
    \/ CallDefault
    \/ SerializeSettings
    \/ \E k \in SettingsKeys : DropSettingsKey(k)
    \/ DeserializeSettings

SpecSettings == InitSettings /\ [][NextSettings]_vars

----------------------------------------------------------------------------
\* Compiler input: new(), serialization, a document read back.

Init ==
    /\ args = None /\ input = None
    /\ op = "init"
    /\ doc = None /\ wire = None /\ parsed = None /\ dropped = {}
    /\ builder = None /\ calls = << >> /\ config = None
    /\ st = None

CallNew(sources, s) ==
    /\ input = None
    /\ args' = Some([sources |-> sources, settings |-> s])
    /\ input' = Some(ZkStandardJsonCompilerInput_new(sources, s))
    /\ op' = "new"
    /\ UNCHANGED <<st, doc, wire, parsed, dropped>>
    /\ NoBuilder

\* serde_json::to_string(&input): on success the document goes on the wire.
Serialize ==
    /\ input.some /\ doc = None
    /\ doc' = Some(Input_serialize(input.val))
    /\ wire' = IF Input_serialize(input.val).ok
               THEN Some(Input_serialize(input.val).val) ELSE None
    /\ op' = "serialize"
    /\ UNCHANGED <<st, args, input, parsed, dropped>>
    /\ NoBuilder

\* A document that arrives without the key at path p.
DropKey(p) ==
    /\ wire.some /\ parsed = None
    /\ Cardinality(dropped) < MaxDropped
    /\ HasPath(wire.val, p)
    /\ wire' = Some(DropPath(wire.val, p))
    /\ dropped' = dropped \cup {p}
    /\ op' = "drop"
    /\ UNCHANGED <<st, args, input, doc, parsed>>
    /\ NoBuilder

\* serde_json::from_str::<ZkStandardJsonCompilerInput>(wire)
Deserialize ==
    /\ wire.some /\ parsed = None
    /\ parsed' = Some(Input_deserialize(wire.val))
    /\ op' = "deserialize"
    /\ UNCHANGED <<st, args, input, doc, wire, dropped>>
    /\ NoBuilder

Next ==
    \/ \E sources \in SeqsUpTo(Pairs, MaxSources), s \in SomeSettings : CallNew(sources, s)
    \/ Serialize
    \/ \E p \in InputKeyPaths : DropKey(p)
    \/ Deserialize

Spec == Init /\ [][Next]_vars

----------------------------------------------------------------------------
\* Properties of the builder (SpecBuilder).

\* The argument of the last call of the setter `name`, or d when the setter
\* was never called.
LastArg(name, d) ==
    LET is == {i \in 1..Len(calls) : calls[i][1] = name}
    IN  IF is = {} THEN d
        ELSE calls[CHOOSE i \in is : \A j \in is : j <= i][2]

\* C3: whatever setter calls were made since new(), build() yields a config
\* whose settings are the last Settings assigned, or Settings::default() when
\* none was; whose compiler_path is the last path assigned, or the empty path
\* when none was; and whose contracts_to_compile and avoid_contracts are None.
C3_BuildReflectsLastAssignments ==
    config.some =>
        /\ config.val.ok
        /\ config.val.val.settings =
             LastArg("settings",
                     [remappings |-> << >>,
                      optimizer |-> [enabled |-> None, mode |-> None, details |-> None,
                                     fallback_to_optimizing_for_size |-> None,
                                     disable_system_request_memoization |-> FALSE],
                      metadata |-> None,
                      output_selection |-> default_output_selection,
                      libraries |-> << >>,
                      is_system |-> FALSE,
                      force_evmla |-> FALSE,
                      missing_libraries_path |-> None,
                      are_libraries_missing |-> FALSE,
                      contracts_to_compile |-> << >>])
        /\ config.val.val.compiler_path = LastArg("compiler_path", [utf8 |-> TRUE, s |-> ""])
        /\ config.val.val.contracts_to_compile = None
        /\ config.val.val.avoid_contracts = None

\* build() has run after settings was assigned twice, with different values,
\* and a path once.
C3_Witness ==
    /\ config.some
    /\ Len(calls) = 3
    /\ calls[1][1] = "settings" /\ calls[2][1] = "settings" /\ calls[3][1] = "compiler_path"
    /\ calls[1][2] # calls[2][2]
    /\ config.val.val.settings = calls[2][2]

\* C7: build() returns Ok for every builder reachable from new(): the result
\* it returned is Ok, and it would return Ok on the builder in hand.
C7_BuildNeverFails ==
    /\ config.some => config.val.ok
    /\ builder.some => build(builder.val).ok

\* build() has run on a builder no setter was called on.
C7_Witness == config.some /\ calls = << >> /\ config.val.ok

----------------------------------------------------------------------------
\* Properties of Settings (SpecSettings).

\* C4: the serialized Settings object holds each of the keys remappings,
\* metadata, missingLibrariesPath, contractsToCompile exactly when its field
\* is non-empty / present, and never holds null under any of them.
C4_OmissionOnDefault ==
    (st.some /\ doc.some) =>
        LET j == doc.val.val
            skipped == {"remappings", "metadata", "missingLibrariesPath", "contractsToCompile"}
        IN  /\ doc.val.ok
            /\ HasKey(j, "remappings") <=> (st.val.remappings # << >>)
            /\ HasKey(j, "metadata") <=> st.val.metadata.some
            /\ HasKey(j, "missingLibrariesPath") <=> st.val.missing_libraries_path.some
            /\ HasKey(j, "contractsToCompile") <=> (st.val.contracts_to_compile # << >>)
            /\ \A i \in 1..Len(j.entries) :
                 j.entries[i].key \in skipped => j.entries[i].value.t # "null"

\* A Settings with the four fields empty / absent has been serialized, and
\* none of the four keys is in the document.
C4_Witness ==
    /\ st.some /\ doc.some
    /\ st.val.remappings = << >> /\ ~st.val.metadata.some
    /\ ~st.val.missing_libraries_path.some /\ st.val.contracts_to_compile = << >>
    /\ \A k \in {"remappings", "metadata", "missingLibrariesPath", "contractsToCompile"} :
         ~HasKey(doc.val.val, k)
    /\ HasKey(doc.val.val, "optimizer")

\* C6: every call of Settings::default(), whatever ran before it, returns the
\* one value the documentation lists.
C6_DefaultIsStable ==
    op = "default" =>
        st = Some([remappings |-> << >>,
                   optimizer |-> [enabled |-> None, mode |-> None, details |-> None,
                                  fallback_to_optimizing_for_size |-> None,
                                  disable_system_request_memoization |-> FALSE],
                   metadata |-> None,
                   output_selection |->
                       << <<"*", << <<"*", <<"abi", "evm.bytecode", "evm.deployedBytecode",
                                             "evm.methodIdentifiers">> >> >> >> >>,
                   libraries |-> << >>,
                   is_system |-> FALSE,
                   force_evmla |-> FALSE,
                   missing_libraries_path |-> None,
                   are_libraries_missing |-> FALSE,
                   contracts_to_compile |-> << >>])

\* Settings::default() has just been called.
C6_Witness == op = "default" /\ st.some /\ doc = None

\* C8: a Settings obtained without an output selection being supplied carries
\* the standard output selection: from Settings::default(), from build() with
\* settings never set, and from a document without the outputSelection key.
C8_OutputSelectionDefaultsToStandard ==
    /\ op = "default" => st.val.output_selection = default_output_selection
    /\ (config.some /\ config.val.ok /\ \A i \in 1..Len(calls) : calls[i][1] # "settings")
         => config.val.val.settings.output_selection = default_output_selection
    /\ (st.some /\ parsed.some /\ parsed.val.ok /\ ~HasKey(wire.val, "outputSelection"))
         => parsed.val.val.output_selection = default_output_selection

----------------------------------------------------------------------------
\* Properties of the compiler input (Spec).

PathsOf(sources) == [i \in 1..Len(sources) |-> sources[i][1]]
SourcesObject(j) == Get(j.entries, "sources")

\* C1: a compiler input that was serialized and read back as written has the
\* `sources` sequence it was built from: the same pairs in the same order.
C1_SourcesRoundTrip ==
    (input.some /\ parsed.some /\ dropped = {}) =>
        /\ parsed.val.ok
        /\ parsed.val.val.sources = input.val.sources

\* The sequence z.sol, a.sol, m.sol has been serialized and read back.
C1_Witness ==
    /\ input.some /\ parsed.some /\ dropped = {} /\ parsed.val.ok
    /\ PathsOf(input.val.sources) =
         <<PathBuf_from("z.sol"), PathBuf_from("a.sol"), PathBuf_from("m.sol")>>
    /\ Len(parsed.val.val.sources) = 3

\* C2: the keys of the emitted `sources` object, in document order, are the
\* paths of the pair sequence in sequence order; the empty sequence gives the
\* empty object.
C2_KeysInSequenceOrder ==
    (input.some /\ doc.some /\ doc.val.ok) =>
        /\ HasKey(doc.val.val, "sources")
        /\ SourcesObject(doc.val.val).t = "object"
        /\ KeysOf(SourcesObject(doc.val.val).entries) =
             [i \in 1..Len(input.val.sources) |-> input.val.sources[i][1].s]
        /\ (input.val.sources = << >> => SourcesObject(doc.val.val) = JObj(<< >>))

\* A sequence that starts z.sol, a.sol has been serialized.
C2_Witness ==
    /\ input.some /\ doc.some /\ doc.val.ok
    /\ Len(input.val.sources) >= 2
    /\ KeysOf(SourcesObject(doc.val.val).entries)[1] = "z.sol"
    /\ KeysOf(SourcesObject(doc.val.val).entries)[2] = "a.sol"

\* C5: new(sources, settings) sets language to "Solidity" and stores sources
\* and settings as passed.
C5_NewStoresArguments ==
    input.some =>
        /\ input.val.language = "Solidity"
        /\ input.val.sources = args.val.sources
        /\ input.val.settings = args.val.settings

\* new() has been called with three pairs and settings that are not the
\* default.
C5_Witness ==
    /\ input.some /\ Len(args.val.sources) = 3
    /\ args.val.settings = CustomSettings
    /\ input.val.language = "Solidity"

\* C9: a document missing language, sources or settings, or whose settings
\* miss optimizer, isSystem or forceEvmla, is rejected; a document missing
\* none of these is accepted, and every one of remappings, metadata,
\* outputSelection, libraries, missingLibrariesPath, areLibrariesMissing,
\* contractsToCompile its settings omit is filled with the default of the
\* field's type.
RequiredPaths ==
    {<<"language">>, <<"sources">>, <<"settings">>, <<"settings", "optimizer">>,
     <<"settings", "isSystem">>, <<"settings", "forceEvmla">>}
C10_DuplicatesKept ==
    /\ input.some => input.val.sources = args.val.sources
    /\ (input.some /\ doc.some /\ doc.val.ok) =>
         LET es == SourcesObject(doc.val.val).entries
             srcs == args.val.sources
         IN  /\ Len(es) = Len(srcs)
             /\ \A i \in 1..Len(srcs) :
                  /\ es[i].key = srcs[i][1].s
                  /\ es[i].value = JObj(<<Entry("content", JStr(srcs[i][2].content))>>)

\* A sequence listing a.sol twice, with two contents, has been serialized
\* into an object holding the key a.sol twice.
C10_Witness ==
    /\ input.some /\ doc.some /\ doc.val.ok
    /\ \E i, j \in 1..Len(args.val.sources) :
         /\ i < j
         /\ args.val.sources[i][1] = args.val.sources[j][1]
         /\ args.val.sources[i][2] # args.val.sources[j][2]
    /\ Count(SourcesObject(doc.val.val).entries, "a.sol") = 2

====
